---- MODULE Spec2Model ----
(***************************************************************************)
(* A model of custom_lib.py: the radar and optical availability reporters  *)
(* (check_sar_data_availability, check_optical_data_availability) and the  *)
(* period selector (setting_up_analysis_periods).                          *)
(*                                                                         *)
(* Python values: None is the record None; a list is [list |-> <<...>>];   *)
(* a date string 'YYYY-MM-DD' is the tuple <<y, m, d>>; a timestamp is a   *)
(* number of ticks, TicksPerDay ticks to the day, counted from day 0 of    *)
(* the proleptic Gregorian ordinal.                                        *)
(***************************************************************************)
EXTENDS Integers, Sequences, FiniteSets, TLC

VARIABLES
    pc,                   \* position of the running function
    ic,                   \* the image collection over the area of interest
    start, end,           \* min and max acquisition times, as datetimes
    total_clear_images,   \* custom_lib.py:172
    year, month,          \* loop counters
    yearly_images,        \* year -> (month -> count), custom_lib.py:180
    yearly_summary,       \* year -> [dry_season, wet_season, total]
    queried,              \* the filterDate windows handed to the catalog, in order
    last,                 \* what the latest loop iteration did: "ok", "error", "skip"
    any_error,            \* some per-month query has failed
    yearly_stats,         \* the radar reporter's list, custom_lib.py:94
    printed,              \* the radar reporter's per-year report lines
    sar_yearly_stats,     \* the selector's first argument
    optical_yearly_stats, \* the selector's second argument
    good_years,           \* custom_lib.py:374
    result                \* the value returned

vars == <<pc, ic, start, end, total_clear_images, year, month, yearly_images,
          yearly_summary, queried, last, any_error, yearly_stats, printed,
          sar_yearly_stats, optical_yearly_stats, good_years, result>>

None == [none |-> TRUE]

(***************************************************************************)
(* Bounds of the model.                                                    *)
(***************************************************************************)
TicksPerDay == 2
MaxImages == 3
MaxRecords == 3
NumYears == 3

(***************************************************************************)
(* Python helpers.                                                         *)
(***************************************************************************)
Min(a, b) == IF a <= b THEN a ELSE b

Reverse(s) == [i \in 1..Len(s) |-> s[Len(s) + 1 - i]]

RECURSIVE SumSeq(_)
SumSeq(s) == IF s = << >> THEN 0 ELSE Head(s) + SumSeq(Tail(s))

\* s with x put after the last element whose key is <= x's: one step of a
\* stable ascending sort.
RECURSIVE InsertStable(_, _, _)
InsertStable(x, s, key) ==
    IF s = << >> THEN <<x>>
    ELSE IF s[Len(s)][key] <= x[key] THEN Append(s, x)
    ELSE Append(InsertStable(x, SubSeq(s, 1, Len(s) - 1), key), s[Len(s)])

RECURSIVE StableSort(_, _)
StableSort(s, key) ==
    IF s = << >> THEN << >>
    ELSE InsertStable(s[Len(s)], StableSort(SubSeq(s, 1, Len(s) - 1), key), key)

\* sorted(s, key=lambda x: x[key], reverse=rev): list.sort is stable, and with
\* reverse=True it reverses, sorts ascending and reverses again, so that equal
\* keys keep their original order.
sorted(s, key, rev) ==
    IF rev THEN Reverse(StableSort(Reverse(s), key)) ELSE StableSort(s, key)

\* s[:n]
Prefix(s, n) == SubSeq(s, 1, Min(n, Len(s)))

(***************************************************************************)
(* setting_up_analysis_periods                                             *)
(***************************************************************************)
GoodThreshold == 50

\* not sar_yearly_stats
FalsyNoneOnly(x) == x = None
Falsy(x) == IF x = None THEN TRUE ELSE Len(x.list) = 0

IsGood(r) == r.count >= GoodThreshold

FilterGood(stats) == SelectSeq(stats, IsGood)

RelaxedFlipped(stats) == Prefix(Reverse(sorted(stats, "count", FALSE)), 2)
Relaxed(stats) == Prefix(sorted(stats, "count", TRUE), 2)

SortByYearSkipped(gy) == gy
SortByYear(gy) == sorted(gy, "year", FALSE)

\* good_years[0] of an empty list raises IndexError
IndexError == [raised |-> "IndexError"]

PickPeriodsStrict(gy) ==
    IF Len(gy) = 0 THEN IndexError
    ELSE [baseline |-> gy[1],
          intermediate |-> IF Len(gy) > 2 THEN gy[Len(gy) - 1] ELSE None,
          current |-> gy[Len(gy)]]
PickPeriods(gy) ==
    IF Len(gy) = 0 THEN IndexError
    ELSE [baseline |-> gy[1],
          intermediate |-> IF Len(gy) > 1 THEN gy[Len(gy) - 1] ELSE None,
          current |-> gy[Len(gy)]]

Years == 2018..(2018 + NumYears - 1)
Counts == {8, 30, 50, 70}
RadarRecord == [year : Years, count : Counts]

DistinctYears(s) == \A i, j \in 1..Len(s) : i # j => s[i].year # s[j].year

RadarLists ==
    {s \in UNION {[1..n -> RadarRecord] : n \in 0..MaxRecords} : DistinctYears(s)}

OpticalArgs ==
    {None, [list |-> << >>],
     [list |-> <<[year |-> 2018, dry_season_count |-> 1,
                  wet_season_count |-> 0, count |-> 1]>>]}

Idle ==
    /\ ic = {} /\ start = None /\ end = None /\ total_clear_images = 0
    /\ year = 0 /\ month = 0
    /\ yearly_images = << >> /\ yearly_summary = << >>
    /\ queried = << >> /\ last = "none" /\ any_error = FALSE
    /\ yearly_stats = << >> /\ printed = << >>
    /\ good_years = << >> /\ result = None

InitSel ==
    /\ pc = "sel_call"
    /\ sar_yearly_stats \in {None} \cup {[list |-> s] : s \in RadarLists}
    /\ optical_yearly_stats \in OpticalArgs
    /\ Idle

SelUnchanged ==
    UNCHANGED <<ic, start, end, total_clear_images, year, month, yearly_images,
                yearly_summary, queried, last, any_error, yearly_stats, printed,
                sar_yearly_stats, optical_yearly_stats>>

\* custom_lib.py:369-371
SelNoData ==
    /\ pc = "sel_call"
    /\ Falsy(sar_yearly_stats)
    /\ result' = None
    /\ pc' = "sel_done"
    /\ UNCHANGED good_years
    /\ SelUnchanged

\* custom_lib.py:374
SelFilter ==
    /\ pc = "sel_call"
    /\ ~Falsy(sar_yearly_stats)
    /\ good_years' = FilterGood(sar_yearly_stats.list)
    /\ pc' = "sel_relax"
    /\ UNCHANGED result
    /\ SelUnchanged

\* custom_lib.py:377-379
SelRelax ==
    /\ pc = "sel_relax"
    /\ good_years' = IF Len(good_years) < 2
                     THEN Relaxed(sar_yearly_stats.list)
                     ELSE good_years
    /\ pc' = "sel_sort"
    /\ UNCHANGED result
    /\ SelUnchanged

\* custom_lib.py:382
SelSort ==
    /\ pc = "sel_sort"
    /\ good_years' = SortByYear(good_years)
    /\ pc' = "sel_pick"
    /\ UNCHANGED result
    /\ SelUnchanged

\* custom_lib.py:385-401
SelPick ==
    /\ pc = "sel_pick"
    /\ result' = PickPeriods(good_years)
    /\ pc' = "sel_done"
    /\ UNCHANGED good_years
    /\ SelUnchanged

NextSel == SelNoData \/ SelFilter \/ SelRelax \/ SelSort \/ SelPick

SpecSel == InitSel /\ [][NextSel]_vars

(***************************************************************************)
(* Dates: datetime's proleptic Gregorian ordinal, and the strings made and *)
(* parsed with strftime / strptime ('%Y-%m-%d').                           *)
(***************************************************************************)
IsLeap(y) == y % 4 = 0 /\ (y % 100 # 0 \/ y % 400 = 0)

DaysBeforeMonthTable == <<0, 31, 59, 90, 120, 151, 181, 212, 243, 273, 304, 334>>
DaysInMonthTable == <<31, 28, 31, 30, 31, 30, 31, 31, 30, 31, 30, 31>>

DaysBeforeYear(y) ==
    (y - 1) * 365 + ((y - 1) \div 4) - ((y - 1) \div 100) + ((y - 1) \div 400)

DaysBeforeMonth(y, m) ==
    DaysBeforeMonthTable[m] + (IF m > 2 /\ IsLeap(y) THEN 1 ELSE 0)

\* date(y, m, d).toordinal()
Ymd2Ord(ymd) == DaysBeforeYear(ymd[1]) + DaysBeforeMonth(ymd[1], ymd[2]) + ymd[3]

\* date.fromordinal(n), as <<y, m, d>>
Ord2Ymd(ord) ==
    LET n0   == ord - 1
        n400 == n0 \div 146097
        r400 == n0 % 146097
        n100 == r400 \div 36524
        r100 == r400 % 36524
        n4   == r100 \div 1461
        r4   == r100 % 1461
        n1   == r4 \div 365
        n    == r4 % 365
        y    == n400 * 400 + 1 + n100 * 100 + n4 * 4 + n1
        leap == n1 = 3 /\ (n4 # 24 \/ n100 = 3)
        m0   == (n + 50) \div 32
        p0   == DaysBeforeMonthTable[m0] + (IF m0 > 2 /\ leap THEN 1 ELSE 0)
        m    == IF p0 > n THEN m0 - 1 ELSE m0
        p    == IF p0 > n
                THEN p0 - (DaysInMonthTable[m] + (IF m = 2 /\ leap THEN 1 ELSE 0))
                ELSE p0
    IN  IF n1 = 4 \/ n100 = 4 THEN <<y - 1, 12, 31>> ELSE <<y, m, n - p + 1>>

\* datetime.utcfromtimestamp(t): a date and a time of day
utcfromtimestamp(t) == [date |-> Ord2Ymd(t \div TicksPerDay), tod |-> t % TicksPerDay]

\* dt.strftime('%Y-%m-%d'): the time of day is dropped
DateOf(dt) == dt.date
YearOf(dt) == dt.date[1]
MonthOf(dt) == dt.date[2]

\* dt + timedelta(days=1)
NextDay(dt) == [date |-> Ord2Ymd(Ymd2Ord(dt.date) + 1), tod |-> dt.tod]

\* (datetime.strptime(s, '%Y-%m-%d') + timedelta(days=1)).strftime('%Y-%m-%d')
PlusOneDay(ymd) == Ord2Ymd(Ymd2Ord(ymd) + 1)

\* the instant a date string denotes to the catalog: 00:00 UTC of that day
Instant(ymd) == Ymd2Ord(ymd) * TicksPerDay

\* ic.filterDate(a, b): start inclusive, end exclusive
filterDate(coll, a, b) ==
    {img \in coll : Instant(a) <= img.time /\ img.time < Instant(b)}

\* .filter(ee.Filter.lt('CLOUDY_PIXEL_PERCENTAGE', 20)) for the optical
\* collection, .filter(ee.Filter.eq('instrumentMode', 'IW')) for the radar one
filterKept(coll) == {img \in coll : img.keep}

MinTime(coll) == CHOOSE t \in {i.time : i \in coll} : \A i \in coll : t <= i.time
MaxTime(coll) == CHOOSE t \in {i.time : i \in coll} : \A i \in coll : i.time <= t

(***************************************************************************)
(* The catalog: images at a few instants around month and year ends.       *)
(***************************************************************************)
Stamp(y, m, d, tod) == Ymd2Ord(<<y, m, d>>) * TicksPerDay + tod

Slots ==
    {Stamp(2023, 11, 30, 1), Stamp(2023, 12, 31, 1), Stamp(2024, 1, 1, 0),
     Stamp(2024, 2, 10, 0), Stamp(2024, 2, 29, 1), Stamp(2024, 7, 15, 0),
     Stamp(2024, 12, 31, 0), Stamp(2025, 2, 28, 1), Stamp(2025, 3, 1, 0)}

Catalogs ==
    UNION {{{[time |-> t, keep |-> f[t]] : t \in S} : f \in [S -> BOOLEAN]} :
           S \in {T \in SUBSET Slots : Cardinality(T) <= MaxImages}}

(***************************************************************************)
(* get_days_in_month (the second definition, which is the one in effect)   *)
(***************************************************************************)
get_days_in_month_no_leap(y, m) ==
    IF m = 2 THEN 28
    ELSE IF m \in {4, 6, 9, 11} THEN 30
    ELSE 31
get_days_in_month(y, m) ==
    IF m = 2 THEN (IF y % 4 = 0 /\ (y % 100 # 0 \/ y % 400 = 0) THEN 29 ELSE 28)
    ELSE IF m \in {4, 6, 9, 11} THEN 30
    ELSE 31

(***************************************************************************)
(* check_optical_data_availability                                         *)
(***************************************************************************)
all_years == YearOf(start)..YearOf(end)

\* custom_lib.py:192-195
Skipped(y, m) ==
    \/ (y = YearOf(start) /\ m < MonthOf(start))
    \/ (y = YearOf(end) /\ m > MonthOf(end))

IsFirstMonth(y, m) == y = YearOf(start) /\ m = MonthOf(start)
IsLastMonth(y, m) == y = YearOf(end) /\ m = MonthOf(end)

\* custom_lib.py:197-211
month_start(y, m) == IF IsFirstMonth(y, m) THEN DateOf(start) ELSE <<y, m, 1>>

month_end(y, m) ==
    IF IsFirstMonth(y, m) THEN <<y, m, get_days_in_month(y, m)>>
    ELSE IF IsLastMonth(y, m) THEN DateOf(end)
    ELSE <<y, m, get_days_in_month(y, m)>>

\* custom_lib.py:217-225
end_date_uncompensated(y, m) ==
    IF IsLastMonth(y, m) THEN DateOf(end) ELSE month_end(y, m)
end_date_plus_one(y, m) ==
    IF IsLastMonth(y, m) THEN DateOf(NextDay(end))
    ELSE PlusOneDay(month_end(y, m))

\* custom_lib.py:220-229
month_count(y, m) ==
    Cardinality(filterKept(filterDate(ic, month_start(y, m), end_date_plus_one(y, m))))

Window(y, m) ==
    [year |-> y, month |-> m,
     from |-> month_start(y, m), to |-> end_date_plus_one(y, m)]

\* "if month in yearly_images[year]: seasonal_count += yearly_images[year][month]"
RECURSIVE AddMonths(_, _, _)
AddMonths(yi, y, months) ==
    IF months = << >> THEN 0
    ELSE (IF Head(months) \in DOMAIN yi[y] THEN yi[y][Head(months)] ELSE 0)
         + AddMonths(yi, y, Tail(months))

\* custom_lib.py:247-255
dry_season(yi, y) == AddMonths(yi, y, <<5, 6, 7, 8, 9, 10>>)

\* custom_lib.py:266-280
wet_season_same_year(yi, y) == AddMonths(yi, y, <<11, 12>>)
wet_season(yi, y) ==
    AddMonths(yi, y, <<11, 12>>)
    + (IF y + 1 \in DOMAIN yi THEN AddMonths(yi, y + 1, <<1, 2, 3, 4>>) ELSE 0)

year_total_no_december(yi, y) == AddMonths(yi, y, <<1, 2, 3, 4, 5, 6, 7, 8, 9, 10, 11>>)
\* custom_lib.py:292-302
year_total(yi, y) == AddMonths(yi, y, <<1, 2, 3, 4, 5, 6, 7, 8, 9, 10, 11, 12>>)

\* custom_lib.py:354-361: sorted(yearly_summary.keys()) is all_years ascending
yearly_optical_stats(ys) ==
    [i \in 1..Cardinality(DOMAIN ys) |->
        LET y == YearOf(start) + i - 1 IN
        [year |-> y,
         dry_season_count |-> ys[y].dry_season,
         wet_season_count |-> ys[y].wet_season,
         count |-> ys[y].total]]

InitOpt ==
    /\ pc = "opt_call"
    /\ ic \in Catalogs
    /\ start = None /\ end = None /\ total_clear_images = 0
    /\ year = 0 /\ month = 0
    /\ yearly_images = << >> /\ yearly_summary = << >>
    /\ queried = << >> /\ last = "none" /\ any_error = FALSE
    /\ yearly_stats = << >> /\ printed = << >>
    /\ sar_yearly_stats = None /\ optical_yearly_stats = None
    /\ good_years = << >> /\ result = None

OptUnchanged ==
    UNCHANGED <<ic, yearly_stats, printed, sar_yearly_stats,
                optical_yearly_stats, good_years>>

\* custom_lib.py:152-154
OptNoData ==
    /\ pc = "opt_call"
    /\ ic = {}
    /\ result' = None
    /\ pc' = "opt_done"
    /\ UNCHANGED <<start, end, total_clear_images, year, month, yearly_images,
                   yearly_summary, queried, last, any_error>>
    /\ OptUnchanged

\* custom_lib.py:156-188
OptBootstrap ==
    /\ pc = "opt_call"
    /\ ic # {}
    /\ start' = utcfromtimestamp(MinTime(ic))
    /\ end' = utcfromtimestamp(MaxTime(ic))
    /\ total_clear_images' = Cardinality(filterKept(ic))
    /\ yearly_summary' = [y \in YearOf(utcfromtimestamp(MinTime(ic)))..YearOf(utcfromtimestamp(MaxTime(ic))) |->
                             [dry_season |-> 0, wet_season |-> 0, total |-> 0]]
    /\ yearly_images' = [y \in YearOf(utcfromtimestamp(MinTime(ic)))..YearOf(utcfromtimestamp(MaxTime(ic))) |-> << >>]
    /\ year' = YearOf(utcfromtimestamp(MinTime(ic)))
    /\ month' = 1
    /\ pc' = "opt_months"
    /\ UNCHANGED <<queried, last, any_error, result>>
    /\ OptUnchanged

\* the next iteration of "for year in all_years: for month in range(1, 13)"
NextMonth ==
    IF month < 12
    THEN /\ month' = month + 1 /\ year' = year /\ pc' = pc
    ELSE IF year < YearOf(end)
    THEN /\ month' = 1 /\ year' = year + 1 /\ pc' = pc
    ELSE /\ month' = month /\ year' = year /\ pc' = "opt_dry"

\* custom_lib.py:192-195
OptSkipMonth ==
    /\ pc = "opt_months"
    /\ Skipped(year, month)
    /\ last' = "skip"
    /\ NextMonth
    /\ UNCHANGED <<start, end, total_clear_images, yearly_images, yearly_summary,
                   queried, any_error, result>>
    /\ OptUnchanged

\* custom_lib.py:197-237
OptMonthCounted ==
    /\ pc = "opt_months"
    /\ ~Skipped(year, month)
    /\ queried' = Append(queried, Window(year, month))
    /\ yearly_images' =
          [yearly_images EXCEPT ![year] = (month :> month_count(year, month)) @@ @]
    /\ last' = "ok"
    /\ NextMonth
    /\ UNCHANGED <<start, end, total_clear_images, yearly_summary, any_error, result>>
    /\ OptUnchanged

\* a month's query that raises and aborts the report
OptMonthErrorAborts ==
    /\ pc = "opt_months"
    /\ ~Skipped(year, month)
    /\ queried' = Append(queried, Window(year, month))
    /\ last' = "error"
    /\ any_error' = TRUE
    /\ result' = None
    /\ pc' = "opt_done"
    /\ UNCHANGED <<start, end, total_clear_images, year, month, yearly_images,
                   yearly_summary>>
    /\ OptUnchanged
\* custom_lib.py:197-229, 239-241: the month's query raises
OptMonthError ==
    /\ pc = "opt_months"
    /\ ~Skipped(year, month)
    /\ queried' = Append(queried, Window(year, month))
    /\ yearly_images' = [yearly_images EXCEPT ![year] = (month :> 0) @@ @]
    /\ last' = "error"
    /\ any_error' = TRUE
    /\ NextMonth
    /\ UNCHANGED <<start, end, total_clear_images, yearly_summary, result>>
    /\ OptUnchanged

OptSeasonUnchanged ==
    UNCHANGED <<start, end, total_clear_images, year, month, yearly_images,
                queried, last, any_error, result>>

\* custom_lib.py:249-257
OptDry ==
    /\ pc = "opt_dry"
    /\ yearly_summary' =
          [y \in DOMAIN yearly_summary |->
              [yearly_summary[y] EXCEPT !.dry_season = dry_season(yearly_images, y)]]
    /\ pc' = "opt_wet"
    /\ OptSeasonUnchanged
    /\ OptUnchanged

\* custom_lib.py:265-282
OptWet ==
    /\ pc = "opt_wet"
    /\ yearly_summary' =
          [y \in DOMAIN yearly_summary |->
              [yearly_summary[y] EXCEPT !.wet_season = wet_season(yearly_images, y)]]
    /\ pc' = "opt_totals"
    /\ OptSeasonUnchanged
    /\ OptUnchanged

\* custom_lib.py:290-303
OptTotals ==
    /\ pc = "opt_totals"
    /\ yearly_summary' =
          [y \in DOMAIN yearly_summary |->
              [yearly_summary[y] EXCEPT !.total = year_total(yearly_images, y)]]
    /\ pc' = "opt_return"
    /\ OptSeasonUnchanged
    /\ OptUnchanged

\* custom_lib.py:354-363
OptReturn ==
    /\ pc = "opt_return"
    /\ result' = [list |-> yearly_optical_stats(yearly_summary)]
    /\ pc' = "opt_done"
    /\ UNCHANGED <<start, end, total_clear_images, year, month, yearly_images,
                   yearly_summary, queried, last, any_error>>
    /\ OptUnchanged

NextOpt ==
    \/ OptNoData \/ OptBootstrap
    \/ OptSkipMonth \/ OptMonthCounted \/ OptMonthError
    \/ OptDry \/ OptWet \/ OptTotals \/ OptReturn

SpecOpt == InitOpt /\ [][NextOpt]_vars

(***************************************************************************)
(* check_sar_data_availability                                             *)
(* A record keeps 'year' and 'count'; 'polarizations' and 'orbits' are     *)
(* left out, only the failure of their queries is modelled.                *)
(***************************************************************************)
\* custom_lib.py:96-97
year_start(y) == <<y, 1, 1>>
year_end(y) == <<y, 12, 31>>

\* custom_lib.py:99
year_col(y) == filterKept(filterDate(ic, year_start(y), year_end(y)))

InitSar ==
    /\ pc = "sar_call"
    /\ ic \in Catalogs
    /\ start = None /\ end = None /\ total_clear_images = 0
    /\ year = 0 /\ month = 0
    /\ yearly_images = << >> /\ yearly_summary = << >>
    /\ queried = << >> /\ last = "none" /\ any_error = FALSE
    /\ yearly_stats = << >> /\ printed = << >>
    /\ sar_yearly_stats = None /\ optical_yearly_stats = None
    /\ good_years = << >> /\ result = None

SarUnchanged ==
    UNCHANGED <<ic, total_clear_images, month, yearly_images, yearly_summary,
                queried, last, any_error, sar_yearly_stats, optical_yearly_stats,
                good_years>>

\* custom_lib.py:80-82
SarNoData ==
    /\ pc = "sar_call"
    /\ ic = {}
    /\ result' = None
    /\ pc' = "sar_done"
    /\ UNCHANGED <<start, end, year, yearly_stats, printed>>
    /\ SarUnchanged

\* custom_lib.py:84-95
SarBootstrap ==
    /\ pc = "sar_call"
    /\ ic # {}
    /\ start' = utcfromtimestamp(MinTime(ic))
    /\ end' = utcfromtimestamp(MaxTime(ic))
    /\ yearly_stats' = << >>
    /\ year' = YearOf(utcfromtimestamp(MinTime(ic)))
    /\ pc' = "sar_years"
    /\ UNCHANGED <<printed, result>>
    /\ SarUnchanged

\* custom_lib.py:96-120: the year has images
SarYearCounted ==
    /\ pc = "sar_years"
    /\ year <= YearOf(end)
    /\ Cardinality(year_col(year)) > 0
    /\ yearly_stats' =
          Append(yearly_stats, [year |-> year, count |-> Cardinality(year_col(year))])
    /\ printed' = Append(printed, [year |-> year, line |-> "images"])
    /\ year' = year + 1
    /\ UNCHANGED <<pc, start, end, result>>
    /\ SarUnchanged

\* custom_lib.py:96-104, 121-122: the year has no image
SarYearNoData ==
    /\ pc = "sar_years"
    /\ year <= YearOf(end)
    /\ Cardinality(year_col(year)) = 0
    /\ printed' = Append(printed, [year |-> year, line |-> "No data"])
    /\ year' = year + 1
    /\ UNCHANGED <<pc, start, end, yearly_stats, result>>
    /\ SarUnchanged

\* custom_lib.py:102-111, 123-124: one of the year's queries (the count, the
\* polarisations, the orbit passes) raises
SarYearError ==
    /\ pc = "sar_years"
    /\ year <= YearOf(end)
    /\ printed' = Append(printed, [year |-> year, line |-> "Error checking"])
    /\ year' = year + 1
    /\ UNCHANGED <<pc, start, end, yearly_stats, result>>
    /\ SarUnchanged

\* custom_lib.py:126
SarReturn ==
    /\ pc = "sar_years"
    /\ year > YearOf(end)
    /\ result' = [list |-> yearly_stats]
    /\ pc' = "sar_done"
    /\ UNCHANGED <<start, end, year, yearly_stats, printed>>
    /\ SarUnchanged

NextSar ==
    \/ SarNoData \/ SarBootstrap
    \/ SarYearCounted \/ SarYearNoData \/ SarYearError
    \/ SarReturn

SpecSar == InitSar /\ [][NextSar]_vars

(***************************************************************************)
(* The two reporters together.                                             *)
(***************************************************************************)
InitReports == InitSar \/ InitOpt

NextReports == NextSar \/ NextOpt

SpecReports == InitReports /\ [][NextReports]_vars

(***************************************************************************)
(* Properties of setting_up_analysis_periods.                              *)
(***************************************************************************)
Range(s) == {s[i] : i \in 1..Len(s)}

SelReturned == pc = "sel_done" /\ ~Falsy(sar_yearly_stats)

\* C1: for a non-empty radar list, baseline is the chosen record with the
\* earliest year, current the one with the latest year, intermediate the one
\* with exactly one chosen year after it when two or more are chosen and None
\* otherwise; a single chosen record is both baseline and current.
C1_PeriodsFromSortedGoodYears ==
    SelReturned =>
        LET S == Range(good_years) IN
        /\ S # {}
        /\ result.baseline \in S
        /\ \A r \in S : result.baseline.year <= r.year
        /\ result.current \in S
        /\ \A r \in S : r.year <= result.current.year
        /\ Cardinality(S) >= 2 =>
              /\ result.intermediate \in S
              /\ Cardinality({r \in S : r.year > result.intermediate.year}) = 1
        /\ Cardinality(S) = 1 =>
              /\ result.baseline = result.current
              /\ result.intermediate = None

C1_Witness ==
    /\ SelReturned
    /\ sar_yearly_stats.list =
          <<[year |-> 2020, count |-> 70], [year |-> 2018, count |-> 50],
            [year |-> 2019, count |-> 70]>>
    /\ result.baseline.year = 2018
    /\ result.intermediate.year = 2019
    /\ result.current.year = 2020

TwoChosen == SelReturned /\ Len(good_years) = 2

\* C2 as claimed: with exactly two chosen records the triple is (earlier,
\* None, later).
C2_AsClaimed ==
    TwoChosen =>
        /\ result.baseline = good_years[1]
        /\ result.current = good_years[2]
        /\ good_years[1].year < good_years[2].year
        /\ result.intermediate = None

\* C2 amended: with exactly two chosen records, baseline is the earlier one,
\* current the later one, and intermediate is the earlier record again.
C2_TwoChosenIntermediateIsBaseline ==
    TwoChosen =>
        \E a, b \in Range(good_years) :
            /\ a.year < b.year
            /\ result.baseline = a
            /\ result.current = b
            /\ result.intermediate = a

C2_Witness ==
    /\ TwoChosen
    /\ sar_yearly_stats.list =
          <<[year |-> 2018, count |-> 30], [year |-> 2019, count |-> 50],
            [year |-> 2020, count |-> 70]>>
    /\ result.baseline = [year |-> 2019, count |-> 50]
    /\ result.intermediate = [year |-> 2019, count |-> 50]
    /\ result.current = [year |-> 2020, count |-> 70]

\* The number of records that a stable descending sort by count puts before
\* the record at index i.
RankByCount(L, i) ==
    Cardinality({j \in 1..Len(L) :
        \/ L[j].count > L[i].count
        \/ (L[j].count = L[i].count /\ j < i)})

C4_EmptyRadarListReturnsNone ==
    (pc = "sel_done" /\ (sar_yearly_stats = None \/ sar_yearly_stats = [list |-> << >>]))
        => result = None

C4_Witness ==
    /\ pc = "sel_done"
    /\ sar_yearly_stats = [list |-> << >>]
    /\ optical_yearly_stats # None
    /\ result = None

(***************************************************************************)
(* Properties of check_optical_data_availability.                          *)
(***************************************************************************)
\* the count recorded for a month; a month never processed counts as zero
CountOf(y, m) ==
    IF y \in DOMAIN yearly_images
    THEN (IF m \in DOMAIN yearly_images[y] THEN yearly_images[y][m] ELSE 0)
    ELSE 0

JanToApr(y) == CountOf(y, 1) + CountOf(y, 2) + CountOf(y, 3) + CountOf(y, 4)

MayToOct(y) ==
    CountOf(y, 5) + CountOf(y, 6) + CountOf(y, 7) + CountOf(y, 8) + CountOf(y, 9)
    + CountOf(y, 10)

NovDec(y) == CountOf(y, 11) + CountOf(y, 12)

OptReturned == pc = "opt_done" /\ result # None

OptLoopOver == pc \in {"opt_dry", "opt_wet", "opt_totals", "opt_return"} \/ OptReturned

\* C5: one record per year of [start.year, end.year], ascending, zero or not,
\* with dry = months 5..10, wet = months 11, 12 plus months 1..4 of the next
\* year when that year is in range, count = months 1..12; a month skipped as
\* outside the observed range has no count.
C5_SeasonAndYearTotals ==
    OptReturned =>
        LET L == result.list
            Y0 == YearOf(start)
            Y1 == YearOf(end)
        IN  /\ Len(L) = Y1 - Y0 + 1
            /\ \A i \in 1..Len(L) :
                  LET y == Y0 + i - 1 IN
                  /\ L[i].year = y
                  /\ L[i].dry_season_count = MayToOct(y)
                  /\ L[i].wet_season_count =
                        NovDec(y) + (IF y + 1 <= Y1 THEN JanToApr(y + 1) ELSE 0)
                  /\ L[i].count = JanToApr(y) + MayToOct(y) + NovDec(y)
                  /\ \A m \in 1..12 :
                        Skipped(y, m) => m \notin DOMAIN yearly_images[y]

C5_Witness ==
    /\ OptReturned
    /\ ~any_error
    /\ Len(result.list) = 3
    /\ result.list[1] = [year |-> 2023, dry_season_count |-> 0,
                         wet_season_count |-> 2, count |-> 1]
    /\ result.list[2] = [year |-> 2024, dry_season_count |-> 0,
                         wet_season_count |-> 0, count |-> 1]
    /\ result.list[3] = [year |-> 2025, dry_season_count |-> 0,
                         wet_season_count |-> 0, count |-> 0]

NonBoundary(q) == ~IsFirstMonth(q.year, q.month) /\ ~IsLastMonth(q.year, q.month)

FirstOfNextMonth(y, m) == IF m = 12 THEN <<y + 1, 1, 1>> ELSE <<y, m + 1, 1>>

\* C8: the window of a month that is neither the first nor the last observed
\* one runs from the first of the month to the first of the next month.
C8_FullMonthWindow ==
    \A i \in 1..Len(queried) :
        NonBoundary(queried[i]) =>
            /\ queried[i].from = <<queried[i].year, queried[i].month, 1>>
            /\ queried[i].to = FirstOfNextMonth(queried[i].year, queried[i].month)

C8_Witness ==
    /\ pc = "opt_dry"
    /\ \E i, j, k \in 1..Len(queried) :
          /\ NonBoundary(queried[i]) /\ NonBoundary(queried[j]) /\ NonBoundary(queried[k])
          /\ queried[i].year = 2023 /\ queried[i].month = 12
          /\ queried[i].to = <<2024, 1, 1>>
          /\ queried[j].year = 2024 /\ queried[j].month = 2
          /\ queried[j].to = <<2024, 3, 1>>
          /\ queried[k].year = 2025 /\ queried[k].month = 2
          /\ queried[k].to = <<2025, 3, 1>>

InWindow(t, q) == Instant(q.from) <= t /\ t < Instant(q.to)

SumOfCounts == SumSeq([i \in 1..Len(result.list) |-> result.list[i].count])

SumOfSeasons ==
    SumSeq([i \in 1..Len(result.list) |->
               result.list[i].dry_season_count + result.list[i].wet_season_count])

\* C9: once the month loop is over, the windows queried are non-empty, follow
\* one another without gap or overlap, begin at 00:00 of the start date and
\* end at 00:00 of the day after the end date; every image is in exactly one
\* window, and with no failed query the counts returned add up to the number
\* of images with less than 20% clouds.
C9_WindowsPartitionObservedRange ==
    OptLoopOver =>
        /\ Len(queried) >= 1
        /\ Instant(queried[1].from) = Instant(DateOf(start))
        /\ Instant(queried[Len(queried)].to) = Instant(DateOf(end)) + TicksPerDay
        /\ \A i \in 1..Len(queried) : Instant(queried[i].from) < Instant(queried[i].to)
        /\ \A i \in 1..(Len(queried) - 1) :
              Instant(queried[i].to) = Instant(queried[i + 1].from)
        /\ \A img \in ic :
              Cardinality({i \in 1..Len(queried) : InWindow(img.time, queried[i])}) = 1
        /\ (OptReturned /\ ~any_error) => SumOfCounts = total_clear_images

C9_Witness ==
    /\ OptReturned
    /\ ~any_error
    /\ DateOf(start) = <<2024, 2, 10>>
    /\ DateOf(end) = <<2024, 2, 29>>
    /\ Len(queried) = 1
    /\ total_clear_images = 2
    /\ SumOfCounts = 2

\* C10 as claimed: the sum of the 'count' fields differs from the sum of the
\* dry and wet season counts whenever some January-April month has a count.
C10_AsClaimed ==
    (OptReturned /\ \E y \in all_years : JanToApr(y) > 0)
        => SumOfCounts # SumOfSeasons

\* C10 amended: the sum of the 'count' fields exceeds the sum of the dry and
\* wet season counts by the January-April counts of the first year in range,
\* which no wet season books; the two sums differ exactly when those are not
\* all zero.
C10_SumsDifferByFirstJanToApr ==
    OptReturned =>
        /\ SumOfCounts - SumOfSeasons = JanToApr(YearOf(start))
        /\ (SumOfCounts # SumOfSeasons) <=> (JanToApr(YearOf(start)) > 0)

C10_Witness ==
    /\ OptReturned
    /\ YearOf(start) = 2024
    /\ JanToApr(2024) = 1
    /\ JanToApr(2025) = 1
    /\ SumOfCounts = 2
    /\ SumOfSeasons = 1

(***************************************************************************)
(* Properties of check_sar_data_availability.                              *)
(***************************************************************************)
SarReturned == pc = "sar_done" /\ result # None

\* the IW images acquired in calendar year y
AcquiredIn(y) == {img \in ic : img.keep /\ YearOf(utcfromtimestamp(img.time)) = y}

\* C6 as claimed: every IW image acquired in a year whose queries did not fail,
\* 31 December included, is counted in the record of that year.
C6_AsClaimed ==
    SarReturned =>
        \A i \in 1..Len(printed) :
            (printed[i].line # "Error checking" /\ AcquiredIn(printed[i].year) # {}) =>
                \E r \in Range(result.list) :
                    /\ r.year = printed[i].year
                    /\ r.count = Cardinality(AcquiredIn(printed[i].year))

(***************************************************************************)
(* Failures of single queries, in both reporters.                          *)
(***************************************************************************)
\* C7: a failed per-period query does not abort a report. Radar: every year
\* of [start.year, end.year] is queried, in order, and the list returned holds
\* exactly the years whose queries succeeded with a count above zero. Optical:
\* a failed month is recorded as 0, every month in range gets a count, and a
\* record is returned for every year in range.
C7_FailedQueryDoesNotAbort ==
    /\ (pc = "opt_done" /\ ic # {}) =>
          /\ result # None
          /\ Len(result.list) = YearOf(end) - YearOf(start) + 1
    /\ (pc = "sar_done" /\ ic # {}) =>
          /\ result # None
          /\ Len(printed) = YearOf(end) - YearOf(start) + 1
          /\ \A i \in 1..Len(printed) : printed[i].year = YearOf(start) + i - 1
          /\ {r.year : r \in Range(result.list)}
                = {p.year : p \in {x \in Range(printed) : x.line = "images"}}
          /\ \A i \in 1..Len(printed) :
                /\ printed[i].line = "images"
                      => [year |-> printed[i].year,
                          count |-> Cardinality(year_col(printed[i].year))]
                            \in Range(result.list)
                /\ printed[i].line = "images" => Cardinality(year_col(printed[i].year)) > 0
                /\ printed[i].line = "No data" => Cardinality(year_col(printed[i].year)) = 0
    /\ (last = "error") =>
          LET q == queried[Len(queried)] IN
          /\ q.month \in DOMAIN yearly_images[q.year]
          /\ yearly_images[q.year][q.month] = 0
    /\ (OptLoopOver /\ ic # {}) =>
          \A y \in all_years : \A m \in 1..12 :
              ~Skipped(y, m) => m \in DOMAIN yearly_images[y]

C7_Witness ==
    /\ OptReturned
    /\ any_error
    /\ Len(result.list) = 3
    /\ total_clear_images = 3
    /\ SumOfCounts = 2

====
